---- MODULE Spec2Model ----
(***************************************************************************)
(* Model of ComEdBillDownloader (src/src/downloader.mjs) together with the  *)
(* TemporaryStorage it persists its session in (src/src/storage.mjs).       *)
(*                                                                         *)
(* One downloader instance is modelled.  Every public method is a call     *)
(* that runs from one suspension point (await) to the next in one step.    *)
(* The provider's endpoints, the browser login and the file system are the *)
(* environment: their outcomes are nondeterministic.  Time is counted in   *)
(* months; the date ranges callers ask for are relative to the time of the *)
(* run.                                                                    *)
(*                                                                         *)
(* Spec is the downloader as its user calls it.  StoreSpec is the session   *)
(* store alone: saveCookies and getCookies called on their own.  ExpirySpec *)
(* is the earlier class of src/unnamed/part_002 with hasSessionExpired.     *)
(* OverlapSpec is the downloader with bulk downloads started while an       *)
(* earlier one is still suspended at an await.                              *)
(***************************************************************************)
EXTENDS Integers, Sequences, FiniteSets, TLC

\* ------------------------------------------------------------------ bounds
MaxCalls == 3
MaxSessions == 1
MaxBills == 2
MaxCookies == 2

\* --------------------------------------------------------- program constants
HorizonMonths == 12
DocumentedHorizonMonths == 24

\* ------------------------------------------------------------ small domains
Identities == {"alice", "bob"}
Accounts == {"A", "B"}
Tasks == {"t1", "t2"}
SeqTasks == {"t1"}

NoId == "none"
Undefined == "undefined"
NoToken == 0
NaN == 0 - 1
Now == 30

\* a session left in the store by a previous run of the program
OldSid == [i \in Identities |-> IF i = "alice" THEN 1 ELSE 2]
OldSessions == {OldSid[i] : i \in Identities}
FirstNewSid == Cardinality(Identities) + 1

\* the cookies page.cookies() returns for the session s of the provider
CookiesOf(s) == <<[name |-> "sid", value |-> s, domain |-> "secure.comed.com"]>>

\* the bearer token the session-info endpoint hands out for the session s
TokenOf(s) == 100 + s

\* cookie.name=cookie.value pairs, in order (the "; " joined header)
SessionCookiesHttpString(cookies) ==
  [k \in 1..Len(cookies) |-> <<cookies[k].name, cookies[k].value>>]

\* the session a cookie header names to the provider, 0 when it names none
SidOfHeader(header) ==
  IF \E k \in 1..Len(header) : header[k][1] = "sid"
  THEN header[CHOOSE k \in 1..Len(header) : header[k][1] = "sid"][2]
  ELSE 0

\* ------------------------------------------------------------ the store file
\* The cookies.tmp file of a bucket: absent, or a file holding a text.  A text
\* is the sequence of the tokens of the JSON document.
AbsentFile == [kind |-> "absent", items |-> <<>>]
FileOf(text) == [kind |-> "file", items |-> text]

\* the tokens JSON.stringify writes for one cookie, the "," or "]" after it
\* included
CookieTokens == 9
RECURSIVE StringifyCookies(_)
StringifyCookies(cookies) ==
  IF cookies = <<>> THEN <<>>
  ELSE <<"{", "name", Head(cookies).name, "value", Head(cookies).value,
         "domain", Head(cookies).domain, "}">> \o <<",">>
         \o StringifyCookies(Tail(cookies))
\* JSON.stringify(cookies); the last object is followed by "]", not by ","
JSONstringify(cookies) ==
  LET body == StringifyCookies(cookies)
  IN <<"[">> \o (IF body = <<>> THEN <<>> ELSE SubSeq(body, 1, Len(body) - 1)) \o <<"]">>

\* JSON.parse(text) does not throw: the text is an array of cookie objects
JSONparseOk(text) ==
  /\ Len(text) >= 2
  /\ text[1] = "[" /\ text[Len(text)] = "]"
  /\ \/ Len(text) = 2
     \/ /\ (Len(text) - 1) % CookieTokens = 0
        /\ \A k \in 0..((Len(text) - 1) \div CookieTokens - 1) :
             LET at == 1 + k * CookieTokens
             IN /\ text[at + 1] = "{" /\ text[at + 2] = "name"
                /\ text[at + 4] = "value" /\ text[at + 6] = "domain"
                /\ text[at + 8] = "}"
                /\ text[at + 9] = (IF at + 9 = Len(text) THEN "]" ELSE ",")
\* JSON.parse(text) of a text it accepts
JSONparse(text) ==
  [k \in 1..((Len(text) - 1) \div CookieTokens) |->
     LET at == 1 + (k - 1) * CookieTokens
     IN [name |-> text[at + 3], value |-> text[at + 5], domain |-> text[at + 7]]]

\* a file whose content JSON.parse rejects: a write that was cut short
GarbageFile == FileOf(<<"[", "{", "name">>)
\* what getCookies finds in a file
ReadKind(file) ==
  IF file.kind = "absent" THEN "absent"
  ELSE IF JSONparseOk(file.items) THEN "json" ELSE "garbage"

\* ------------------------------------------------------------------- dates
\* A bill date is the provider's date string, here year and month; month 0
\* stands for a string new Date() cannot parse.
InvalidDateStr == [y |-> 0, m |-> 0]
BillDateStrs == {[y |-> 1, m |-> 7], [y |-> 2, m |-> 1], InvalidDateStr}
\* new Date(s).valueOf()
DateValue(s) == IF s.m \in 1..12 THEN s.y * 12 + (s.m - 1) ELSE NaN
\* format(date, 'yyyy-MM-dd') of a valid time
FormatDate(v) == [y |-> v \div 12, m |-> (v % 12) + 1]
\* date-fns sub(date, { months: n }).valueOf()
SubMonths(v, n) == v - n

\* the date ranges callers ask for, <<from, to>> in months relative to Now,
\* the value of new Date() during the run
Offsets == {<<0 - 25, 0>>, <<0 - 24, 0>>, <<0 - 13, 0 - 6>>, <<0 - 12, 0 - 6>>,
            <<0 - 6, 0 - 6>>, <<0 - 6, 1>>, <<0, 0 - 6>>}
Ranges == {<<Now + o[1], Now + o[2]>> : o \in Offsets}

Bills == [date : BillDateStrs]
RECURSIVE SeqsUpTo(_, _)
SeqsUpTo(S, n) ==
  IF n = 0 THEN {<<>>}
  ELSE LET shorter == SeqsUpTo(S, n - 1)
       IN shorter \cup {Append(q, x) : q \in {r \in shorter : Len(r) = n - 1}, x \in S}
Histories == SeqsUpTo(Bills, MaxBills)

\* JavaScript's >= and <= on numbers: false whenever a side is NaN
Geq(a, b) == a # NaN /\ b # NaN /\ a >= b
Leq(a, b) == a # NaN /\ b # NaN /\ a <= b
Lt(a, b) == a # NaN /\ b # NaN /\ a < b
Gt(a, b) == a # NaN /\ b # NaN /\ a > b

\* the filter with the lower bound left out of the range
InRangeExclusive(bill, lo, hi) == Gt(DateValue(bill.date), lo) /\ Leq(DateValue(bill.date), hi)

\* bills.filter(bill => time >= userLowerTimeLimit && time <= userUpperTimeLimit)
InRange(bill, lo, hi) == Geq(DateValue(bill.date), lo) /\ Leq(DateValue(bill.date), hi)
RECURSIVE FilterBills(_, _, _)
FilterBills(bills, lo, hi) ==
  IF bills = <<>> THEN <<>>
  ELSE IF InRange(Head(bills), lo, hi)
       THEN <<Head(bills)>> \o FilterBills(Tail(bills), lo, hi)
       ELSE FilterBills(Tail(bills), lo, hi)

\* the three date-range checks of bulkDownload, in the order of the code
FromTooOld(from, now) == Lt(from, SubMonths(now, HorizonMonths))
ToInFuture(to, now) == Gt(to, now)
FromAfterTo(from, to) == Gt(from, to)
DateRangeRejected(from, to, now) ==
  FromTooOld(from, now) \/ ToInFuture(to, now) \/ FromAfterTo(from, to)

\* ------------------------------------------------------------------- state
VARIABLES
  isAuthenticated,   \* #isAuthenticated
  bearerToken,       \* #bearerToken, NoToken when undefined
  activeAccount,     \* #activeAccount, Undefined when undefined
  sessionCookies,    \* #sessionCookies
  store,             \* the cookies.tmp file of each identity's bucket
  pendingSaves,      \* storage.set calls started and not yet settled
  saved,             \* per identity, the cookies of the last save that settled
  boundWith,         \* the cookie header of the last activation that succeeded
  crashed,           \* a rejected promise nobody awaits ended the process
  validSessions,     \* sessions the provider still accepts
  minted,            \* sessions created by logins of this run
  ncalls,            \* calls made so far
  pc,                \* where each call stands
  cur,               \* the call each task runs, or ran last
  prev               \* the call each task ran before that

vars == <<isAuthenticated, bearerToken, activeAccount, sessionCookies, store,
          pendingSaves, saved, boundWith, crashed, validSessions, minted,
          ncalls, pc, cur, prev>>

fields == <<isAuthenticated, bearerToken, activeAccount, sessionCookies>>
environment == <<store, pendingSaves, saved, boundWith, crashed, validSessions, minted>>

\* what is known of the last save for an identity: nothing (no save by this
\* run, or a write that failed half-way), or the cookies it wrote
NoSave == [known |-> FALSE, cookies |-> <<>>]
Saved(cookies) == [known |-> TRUE, cookies |-> cookies]

NoBill == [date |-> InvalidDateStr]
NoCall ==
  [op |-> "none", id |-> NoId, acct |-> Undefined, from |-> NaN, to |-> NaN,
   bill |-> NoBill, authAtStart |-> FALSE, activeAtStart |-> Undefined,
   read |-> "none", hasCookies |-> FALSE, cookies |-> <<>>, logins |-> 0, reqs |-> <<>>,
   now |-> NaN, fetched |-> FALSE, history |-> <<>>, matched |-> <<>>,
   idx |-> 0, written |-> <<>>, outcome |-> "none"]

NewCall(op) ==
  [NoCall EXCEPT !.op = op, !.authAtStart = isAuthenticated,
                 !.activeAtStart = activeAccount, !.outcome = "running"]

NoRequest ==
  [kind |-> "none", account |-> Undefined, date |-> InvalidDateStr, bearer |-> NoToken,
   cookie |-> <<>>, authed |-> FALSE, resp |-> "none"]

\* a request as fetch() sends it
Request(kind, account, date, bearer) ==
  [kind |-> kind, account |-> account, date |-> date, bearer |-> bearer,
   cookie |-> SessionCookiesHttpString(sessionCookies),
   authed |-> isAuthenticated, resp |-> "pending"]

Issue(call, req) == [call EXCEPT !.reqs = Append(@, req)]
Answer(call, resp) == [call EXCEPT !.reqs[Len(call.reqs)].resp = resp]
Ended(call, outcome) == [call EXCEPT !.outcome = outcome]

Idle(t) == pc[t] = "done"
Running(t) == pc[t] # "done" /\ ~crashed
AllIdle == \A t \in Tasks : Idle(t)

Init ==
  /\ isAuthenticated = FALSE
  /\ bearerToken = NoToken
  /\ activeAccount = Undefined
  /\ sessionCookies = <<>>
  /\ store \in [Identities -> {AbsentFile, GarbageFile}]
                 \cup {[i \in Identities |-> IF i \in C THEN FileOf(JSONstringify(CookiesOf(OldSid[i])))
                                             ELSE AbsentFile] : C \in SUBSET Identities}
  /\ pendingSaves = {}
  /\ saved = [i \in Identities |-> NoSave]
  /\ boundWith = <<>>
  /\ crashed = FALSE
  /\ validSessions \in SUBSET {OldSid[i] : i \in {j \in Identities : ReadKind(store[j]) = "json"}}
  /\ minted = 0
  /\ ncalls = 0
  /\ pc = [t \in Tasks |-> "done"]
  /\ cur = [t \in Tasks |-> NoCall]
  /\ prev = [t \in Tasks |-> NoCall]

\* ---------------------------------------------------------- the environment
\* what the session-info endpoint may answer to a request with this header:
\* a token only for a session it still accepts
SessionInfoAnswers(header) ==
  {"notok", "notoken"}
    \cup (IF SidOfHeader(header) \in validSessions THEN {"ok"} ELSE {})

\* what the other endpoints may answer; "notok" also stands for a fetch that
\* rejects, which ends the call the same way
PlainAnswers == {"ok", "notok"}

\* the provider ends a session on its side; only a session-info request that
\* names the session can tell, so the step is taken while one is in flight
Revoke ==
  /\ ~crashed
  /\ \E t \in Tasks, s \in validSessions :
       /\ pc[t] \in {"probe", "token", "bearer"}
       /\ SidOfHeader(cur[t].reqs[Len(cur[t].reqs)].cookie) = s
       /\ validSessions' = validSessions \ {s}
  /\ UNCHANGED <<fields, store, pendingSaves, saved, boundWith, crashed, minted,
                 ncalls, pc, cur, prev>>

\* TemporaryStorage.set settles: mkdir and writeFile succeed, or one rejects.
\* Nobody awaits the promise saveCookies returned to authenticate, and the
\* try around the call sees no rejection: Node ends the process on it.
\* Only the next read of the store can tell when the write settled, so the
\* step is taken right after the authenticate that started the write and
\* before a getCookies reads.
SaveSettles ==
  /\ ~crashed
  /\ \E t \in Tasks : cur[t].op = "authenticate" /\ pc[t] \in {"done", "getCookies"}
  /\ \A t \in Tasks : pc[t] \in {"done", "getCookies"}
  /\ \E save \in pendingSaves :
       /\ pendingSaves' = pendingSaves \ {save}
       /\ \/ /\ store' = [store EXCEPT ![save.id] = FileOf(save.value)]
             /\ saved' = [saved EXCEPT ![save.id] = Saved(save.cookies)]
             /\ UNCHANGED crashed
          \/ /\ crashed' = TRUE
             /\ UNCHANGED <<store, saved>>
  /\ UNCHANGED <<fields, boundWith, validSessions, minted, ncalls, pc, cur, prev>>

\* ------------------------------------------------------------- call set-up
\* what is kept of a call once the next one starts
Summary(call) ==
  [NoCall EXCEPT !.op = call.op, !.id = call.id, !.acct = call.acct,
                 !.authAtStart = call.authAtStart, !.activeAtStart = call.activeAtStart,
                 !.hasCookies = call.hasCookies,
                 !.reqs = [k \in 1..(IF Len(call.reqs) > 2 THEN 2 ELSE Len(call.reqs)) |->
                             [NoRequest EXCEPT !.kind = call.reqs[k].kind,
                                               !.resp = call.reqs[k].resp]],
                 !.outcome = IF call.outcome = "ok" THEN "ok" ELSE "failed"]

Begin(t, call, at) ==
  /\ ncalls' = ncalls + 1
  /\ prev' = [prev EXCEPT ![t] = Summary(cur[t])]
  /\ cur' = [cur EXCEPT ![t] = call]
  /\ pc' = [pc EXCEPT ![t] = at]

Step(t, call, at) ==
  /\ cur' = [cur EXCEPT ![t] = call]
  /\ pc' = [pc EXCEPT ![t] = at]
  /\ UNCHANGED <<ncalls, prev>>

\* the caller awaits every call before it makes the next one
CanCall(t) == AllIdle /\ ~crashed /\ ncalls < MaxCalls

\* ------------------------------------------------------------ authenticate
\* authenticate(username, password) up to the await of getCookies
AuthenticateCall(t, id) ==
  /\ CanCall(t)
  /\ Begin(t, [NewCall("authenticate") EXCEPT !.id = id], "getCookies")
  /\ UNCHANGED <<fields, environment>>

\* the first statement of getBearerToken
GetBearerTokenGuard == isAuthenticated

\* getCookies handing back an empty cookie array where there is no file
CookiesFoundOrEmpty(file) == ReadKind(file) \in {"absent", "json"}

\* getCookies returns cookies: the file exists and JSON.parse accepts it
CookiesFound(file) == file.kind # "absent" /\ JSONparseOk(file.items)

\* getCookies settles (TemporaryStorage.get, JSON.parse); with cookies,
\* authenticate goes on into getBearerToken up to its fetch
AuthenticateGetCookies(t) ==
  /\ Running(t) /\ pc[t] = "getCookies"
  /\ \/ \* readFile fails with something other than ENOENT: get rethrows
        /\ Step(t, Ended([cur[t] EXCEPT !.read = "error"], "StoreError"), "done")
     \/ \* ENOENT, or content JSON.parse rejects: getCookies returns null
        /\ ~CookiesFound(store[cur[t].id])
        /\ Step(t, [cur[t] EXCEPT !.read = ReadKind(store[cur[t].id])], "login")
     \/ /\ CookiesFound(store[cur[t].id])
        /\ LET call == [cur[t] EXCEPT !.read = ReadKind(store[cur[t].id]),
                                      !.hasCookies = TRUE,
                                      !.cookies = (IF ReadKind(store[cur[t].id]) = "json"
                                                     THEN JSONparse(store[cur[t].id].items)
                                                     ELSE <<>>)]
           IN IF GetBearerTokenGuard
              THEN Step(t, Issue(call, Request("sessioninfo", Undefined, InvalidDateStr, NoToken)), "probe")
              ELSE \* AuthenticationError, caught by authenticate
                   Step(t, call, "login")
  /\ UNCHANGED <<fields, environment>>

\* the cached path without its try/catch: a failed session-info request
\* ends authenticate
AuthenticateProbeRaising(t) ==
  /\ Running(t) /\ pc[t] = "probe"
  /\ \E resp \in SessionInfoAnswers(cur[t].reqs[Len(cur[t].reqs)].cookie) :
       IF resp \in {"ok", "notoken"}
       THEN /\ bearerToken' = (IF resp = "ok"
                               THEN TokenOf(SidOfHeader(cur[t].reqs[Len(cur[t].reqs)].cookie))
                               ELSE NoToken)
            /\ sessionCookies' = cur[t].cookies
            /\ isAuthenticated' = TRUE
            /\ Step(t, Ended(Answer(cur[t], resp), "ok"), "done")
            /\ UNCHANGED activeAccount
       ELSE /\ Step(t, Ended(Answer(cur[t], resp), "TokenFailed"), "done")
            /\ UNCHANGED fields
  /\ UNCHANGED environment

\* the cached path marking the downloader unauthenticated when the cached
\* session is refused
AuthenticateProbeResetting(t) ==
  /\ Running(t) /\ pc[t] = "probe"
  /\ \E resp \in SessionInfoAnswers(cur[t].reqs[Len(cur[t].reqs)].cookie) :
       IF resp \in {"ok", "notoken"}
       THEN /\ bearerToken' = (IF resp = "ok"
                               THEN TokenOf(SidOfHeader(cur[t].reqs[Len(cur[t].reqs)].cookie))
                               ELSE NoToken)
            /\ sessionCookies' = cur[t].cookies
            /\ isAuthenticated' = TRUE
            /\ Step(t, Ended(Answer(cur[t], resp), "ok"), "done")
            /\ UNCHANGED activeAccount
       ELSE /\ Step(t, Answer(cur[t], resp), "login")
            /\ isAuthenticated' = FALSE
            /\ UNCHANGED <<bearerToken, activeAccount, sessionCookies>>
  /\ UNCHANGED environment

\* the session-info response of the cached path
AuthenticateProbe(t) ==
  /\ Running(t) /\ pc[t] = "probe"
  /\ \E resp \in SessionInfoAnswers(cur[t].reqs[Len(cur[t].reqs)].cookie) :
       IF resp \in {"ok", "notoken"}
       THEN /\ bearerToken' = (IF resp = "ok"
                               THEN TokenOf(SidOfHeader(cur[t].reqs[Len(cur[t].reqs)].cookie))
                               ELSE NoToken)
            /\ sessionCookies' = cur[t].cookies
            /\ isAuthenticated' = TRUE
            /\ Step(t, Ended(Answer(cur[t], resp), "ok"), "done")
            /\ UNCHANGED activeAccount
       ELSE /\ Step(t, Answer(cur[t], resp), "login")
            /\ UNCHANGED fields
  /\ UNCHANGED environment

\* puppeteer.launch: the interactive login starts
AuthenticateLaunch(t) ==
  /\ Running(t) /\ pc[t] = "login"
  /\ Step(t, [cur[t] EXCEPT !.logins = @ + 1], "browser")
  /\ UNCHANGED <<fields, environment>>

\* the login ends: the browser fails, or the page reaches the provider's
\* origin and page.cookies() returns the new session; authenticate goes on
\* into getBearerToken up to its fetch
AuthenticateLogin(t) ==
  /\ Running(t) /\ pc[t] = "browser"
  /\ \/ /\ Step(t, Ended(cur[t], "LoginFailed"), "done")
        /\ UNCHANGED <<fields, environment>>
     \/ /\ minted < MaxSessions
        /\ minted' = minted + 1
        /\ validSessions' = validSessions \cup {FirstNewSid + minted}
        /\ sessionCookies' = CookiesOf(FirstNewSid + minted)
        /\ isAuthenticated' = TRUE
        /\ LET sent == [Request("sessioninfo", Undefined, InvalidDateStr, NoToken)
                          EXCEPT !.cookie = SessionCookiesHttpString(CookiesOf(FirstNewSid + minted)),
                                 !.authed = TRUE]
           IN Step(t, Issue(cur[t], sent), "token")
        /\ UNCHANGED <<bearerToken, activeAccount, store, pendingSaves, saved, boundWith,
                       crashed>>

\* the session-info response after the login; then saveCookies is started
\* (not awaited) and the browser closed
AuthenticateToken(t) ==
  /\ Running(t) /\ pc[t] = "token"
  /\ \E resp \in SessionInfoAnswers(cur[t].reqs[Len(cur[t].reqs)].cookie) :
       IF resp \in {"ok", "notoken"}
       THEN /\ bearerToken' = (IF resp = "ok"
                               THEN TokenOf(SidOfHeader(cur[t].reqs[Len(cur[t].reqs)].cookie))
                               ELSE NoToken)
            /\ pendingSaves' = pendingSaves \cup
                 {[id |-> cur[t].id, cookies |-> sessionCookies,
                   value |-> JSONstringify(sessionCookies)]}
            /\ Step(t, Ended(Answer(cur[t], resp), "ok"), "done")
       ELSE /\ Step(t, Ended(Answer(cur[t], resp), "TokenFailed"), "done")
            /\ UNCHANGED <<bearerToken, pendingSaves>>
  /\ UNCHANGED <<isAuthenticated, activeAccount, sessionCookies, store, saved, boundWith,
                 crashed, validSessions, minted>>

\* ---------------------------------------------------------- getBearerToken
\* getBearerToken() called by the user of the class (it is not #private)
GetBearerTokenCall(t) ==
  /\ CanCall(t)
  /\ IF GetBearerTokenGuard
     THEN Begin(t, Issue(NewCall("getBearerToken"),
                         Request("sessioninfo", Undefined, InvalidDateStr, NoToken)), "bearer")
     ELSE Begin(t, Ended(NewCall("getBearerToken"), "AuthenticationError"), "done")
  /\ UNCHANGED <<fields, environment>>

GetBearerTokenResponse(t) ==
  /\ Running(t) /\ pc[t] = "bearer"
  /\ \E resp \in SessionInfoAnswers(cur[t].reqs[Len(cur[t].reqs)].cookie) :
       Step(t, Ended(Answer(cur[t], resp),
                     IF resp \in {"ok", "notoken"} THEN "ok" ELSE "TokenFailed"), "done")
  /\ UNCHANGED <<fields, environment>>

\* --------------------------------------------------------- activateAccount
\* activateAccount(accountNumber) up to its fetch; it has no guard
ActivateRequest(accountNumber) ==
  Request("activate", accountNumber, InvalidDateStr, NoToken)

ActivateAccountCall(t, accountNumber) ==
  /\ CanCall(t)
  /\ Begin(t, Issue([NewCall("activateAccount") EXCEPT !.acct = accountNumber],
                    ActivateRequest(accountNumber)), "activate")
  /\ UNCHANGED <<fields, environment>>

\* ----------------------------------------------------------------- getBills
\* the first statement of getBills
GetBillsGuard == isAuthenticated

\* getBills() up to its fetch: the URL names the active account
HistoryRequest(active) ==
  [Request("history", active, InvalidDateStr, bearerToken) EXCEPT !.authed = isAuthenticated]

GetBillsCall(t) ==
  /\ CanCall(t)
  /\ IF GetBillsGuard
     THEN Begin(t, Issue(NewCall("getBills"), HistoryRequest(activeAccount)), "history")
     ELSE Begin(t, Ended(NewCall("getBills"), "AuthenticationError"), "done")
  /\ UNCHANGED <<fields, environment>>

\* ------------------------------------------------------------ downloadBill
\* downloadBill(bill, saveDirectory) up to its fetch; it has no guard.
\* format() throws on a date it cannot parse.
DocumentRequest(bill, active) ==
  Request("document", active, FormatDate(DateValue(bill.date)), bearerToken)

DownloadBillCall(t, bill) ==
  /\ CanCall(t)
  /\ IF DateValue(bill.date) = NaN
     THEN Begin(t, Ended([NewCall("downloadBill") EXCEPT !.bill = bill], "FormatError"), "done")
     ELSE Begin(t, Issue([NewCall("downloadBill") EXCEPT !.bill = bill],
                         DocumentRequest(bill, activeAccount)), "document")
  /\ UNCHANGED <<fields, environment>>

\* ------------------------------------------------------------ bulkDownload
\* the first statement of bulkDownload
BulkDownloadGuard == isAuthenticated

\* bulkDownload binding the account on every call
NeedsActivationAlways(accountNumber) == accountNumber \in Accounts

\* the test before activateAccount in bulkDownload
NeedsActivation(accountNumber) == activeAccount # accountNumber

\* bulkDownload from the date checks to the fetch of getBills; active is the
\* active account at that moment
BulkDownloadValidate(t, call, active) ==
  LET c == [call EXCEPT !.now = Now]
  IN IF DateRangeRejected(c.from, c.to, c.now)
     THEN Step(t, Ended(c, "DateRangeError"), "done")
     ELSE IF GetBillsGuard
          THEN Step(t, Issue(c, HistoryRequest(active)), "history")
          ELSE Step(t, Ended(c, "AuthenticationError"), "done")

\* the body of bulkDownload from its guard to its first await
BulkDownloadEnter(t, accountNumber, from, to) ==
  LET call == [NewCall("bulkDownload") EXCEPT !.acct = accountNumber,
                                              !.from = from, !.to = to]
      c == [call EXCEPT !.now = Now]
  IN IF ~BulkDownloadGuard
     THEN Begin(t, Ended(call, "AuthenticationError"), "done")
     ELSE IF NeedsActivation(accountNumber)
          THEN Begin(t, Issue(call, ActivateRequest(accountNumber)), "activate")
          ELSE IF DateRangeRejected(c.from, c.to, c.now)
               THEN Begin(t, Ended(c, "DateRangeError"), "done")
               ELSE Begin(t, Issue(c, HistoryRequest(activeAccount)), "history")

\* bulkDownload(accountNumber, from, to, saveDirectory) up to its first await
BulkDownloadCall(t, accountNumber, from, to) ==
  /\ CanCall(t)
  /\ BulkDownloadEnter(t, accountNumber, from, to)
  /\ UNCHANGED <<fields, environment>>

\* bulkDownload called while another call on the instance is suspended at an
\* await: the promise of the earlier call is not awaited first
BulkDownloadOverlapping(t, accountNumber, from, to) ==
  /\ Idle(t) /\ ~crashed /\ ncalls < MaxCalls
  /\ \E u \in Tasks \ {t} : cur[u].op = "bulkDownload" /\ Running(u)
  /\ BulkDownloadEnter(t, accountNumber, from, to)
  /\ UNCHANGED <<fields, environment>>

\* activateAccount recording the account before it looks at the response
ActivateResponseOptimistic(t) ==
  /\ Running(t) /\ pc[t] = "activate"
  /\ activeAccount' = cur[t].acct
  /\ \E resp \in PlainAnswers :
       IF resp = "ok"
       THEN /\ boundWith' = cur[t].reqs[Len(cur[t].reqs)].cookie
            /\ IF cur[t].op = "bulkDownload"
               THEN BulkDownloadValidate(t, Answer(cur[t], resp), cur[t].acct)
               ELSE Step(t, Ended(Answer(cur[t], resp), "ok"), "done")
       ELSE /\ Step(t, Ended(Answer(cur[t], resp), "ActivationFailed"), "done")
            /\ UNCHANGED boundWith
  /\ UNCHANGED <<isAuthenticated, bearerToken, sessionCookies, store, pendingSaves, saved,
                 crashed, validSessions, minted>>

\* the response of the account-activation endpoint
ActivateResponse(t) ==
  /\ Running(t) /\ pc[t] = "activate"
  /\ \E resp \in PlainAnswers :
       IF resp = "ok"
       THEN /\ activeAccount' = cur[t].acct
            /\ boundWith' = cur[t].reqs[Len(cur[t].reqs)].cookie
            /\ IF cur[t].op = "bulkDownload"
               THEN BulkDownloadValidate(t, Answer(cur[t], resp), cur[t].acct)
               ELSE Step(t, Ended(Answer(cur[t], resp), "ok"), "done")
       ELSE /\ Step(t, Ended(Answer(cur[t], resp), "ActivationFailed"), "done")
            /\ UNCHANGED <<activeAccount, boundWith>>
  /\ UNCHANGED <<isAuthenticated, bearerToken, sessionCookies, store, pendingSaves, saved,
                 crashed, validSessions, minted>>

\* the response of the bill-history endpoint; bulkDownload filters it and
\* goes on into downloadBill for the first bill in range
HistoryResponse(t) ==
  /\ Running(t) /\ pc[t] = "history"
  /\ \E resp \in PlainAnswers :
       IF resp = "ok"
       THEN \E bills \in Histories :
              LET c == [Answer(cur[t], resp) EXCEPT !.fetched = TRUE, !.history = bills]
                  billsInTimeRange == FilterBills(bills, c.from, c.to)
                  b == [c EXCEPT !.matched = billsInTimeRange, !.idx = 1]
              IN IF c.op = "bulkDownload" /\ billsInTimeRange # <<>>
                 THEN Step(t, Issue(b, DocumentRequest(billsInTimeRange[1], activeAccount)), "document")
                 ELSE Step(t, Ended(c, "ok"), "done")
       ELSE Step(t, Ended(Answer(cur[t], resp), "HistoryFailed"), "done")
  /\ UNCHANGED <<fields, environment>>

\* `${accountNumber}-${billDateFormatted}.pdf` of the request downloadBill sent
FileName(req) == <<req.account, req.date>>

\* bulkDownload starting the next download without awaiting the write
DocumentResponseEager(t) ==
  /\ Running(t) /\ pc[t] = "document"
  /\ \E resp \in PlainAnswers :
       IF resp = "ok"
       THEN IF cur[t].op = "bulkDownload" /\ cur[t].idx < Len(cur[t].matched)
            THEN Step(t, Issue([Answer(cur[t], resp) EXCEPT !.idx = @ + 1],
                               DocumentRequest(cur[t].matched[cur[t].idx + 1], activeAccount)),
                      "document")
            ELSE Step(t, Answer(cur[t], resp), "write")
       ELSE Step(t, Ended(Answer(cur[t], resp), "DownloadFailed"), "done")
  /\ UNCHANGED <<fields, environment>>

\* bulkDownload catching the failure of a download and going on to the next
DocumentResponseSkipping(t) ==
  /\ Running(t) /\ pc[t] = "document"
  /\ \E resp \in PlainAnswers :
       IF resp = "ok"
       THEN Step(t, Answer(cur[t], resp), "write")
       ELSE IF cur[t].op = "bulkDownload" /\ cur[t].idx < Len(cur[t].matched)
            THEN Step(t, Issue([Answer(cur[t], resp) EXCEPT !.idx = @ + 1],
                               DocumentRequest(cur[t].matched[cur[t].idx + 1], activeAccount)),
                      "document")
            ELSE Step(t, Ended(Answer(cur[t], resp), "DownloadFailed"), "done")
  /\ UNCHANGED <<fields, environment>>

\* the response of the bill-document endpoint
DocumentResponse(t) ==
  /\ Running(t) /\ pc[t] = "document"
  /\ \E resp \in PlainAnswers :
       IF resp = "ok"
       THEN Step(t, Answer(cur[t], resp), "write")
       ELSE Step(t, Ended(Answer(cur[t], resp), "DownloadFailed"), "done")
  /\ UNCHANGED <<fields, environment>>

\* fsp.writeFile of the bill settles; bulkDownload goes on to the next bill
WriteSettles(t) ==
  /\ Running(t) /\ pc[t] = "write"
  /\ \/ Step(t, Ended(cur[t], "WriteFailed"), "done")
     \/ LET c == [cur[t] EXCEPT !.written = Append(@, FileName(cur[t].reqs[Len(cur[t].reqs)]))]
        IN IF c.op = "bulkDownload" /\ c.idx < Len(c.matched)
           THEN Step(t, Issue([c EXCEPT !.idx = @ + 1],
                              DocumentRequest(c.matched[c.idx + 1], activeAccount)),
                     "document")
           ELSE Step(t, Ended(c, "ok"), "done")
  /\ UNCHANGED <<fields, environment>>

\* ------------------------------------------------ saveCookies, getCookies
\* The two static methods called on their own, each awaited before the next.
\* the cookie arrays callers hand to saveCookies
SavedCookie(name, value) == [name |-> name, value |-> value, domain |-> "secure.comed.com"]
CookieJar ==
  {<<>>} \cup {<<SavedCookie("sid", v)>> : v \in 1..2}
         \cup {<<SavedCookie("sid", v), SavedCookie("lang", w)>> : v \in 1..2, w \in 1..2}

\* saveCookies(username, cookies) up to the await of storage.set
SaveCookiesCall(t, id, cookies) ==
  /\ CanCall(t)
  /\ Begin(t, [NewCall("saveCookies") EXCEPT !.id = id, !.cookies = cookies], "set")
  /\ UNCHANGED <<fields, environment>>

\* storage.set with a writeFile that appends to the file
StorageSetAppending(t) ==
  /\ Running(t) /\ pc[t] = "set"
  /\ store' = [store EXCEPT ![cur[t].id] = FileOf(@.items \o JSONstringify(cur[t].cookies))]
  /\ saved' = [saved EXCEPT ![cur[t].id] = Saved(cur[t].cookies)]
  /\ Step(t, Ended(cur[t], "ok"), "done")
  /\ UNCHANGED <<fields, pendingSaves, boundWith, crashed, validSessions, minted>>

\* storage.set settles: mkdir and writeFile succeed and the file holds the
\* text; or mkdir (or the open) rejects and the file is as it was; or the
\* write rejects after the file was truncated
StorageSet(t) ==
  /\ Running(t) /\ pc[t] = "set"
  /\ \/ /\ store' = [store EXCEPT ![cur[t].id] = FileOf(JSONstringify(cur[t].cookies))]
        /\ saved' = [saved EXCEPT ![cur[t].id] = Saved(cur[t].cookies)]
        /\ Step(t, Ended(cur[t], "ok"), "done")
     \/ /\ Step(t, Ended(cur[t], "WriteFailed"), "done")
        /\ UNCHANGED <<store, saved>>
     \/ /\ store' = [store EXCEPT ![cur[t].id] = FileOf(<<>>)]
        /\ saved' = [saved EXCEPT ![cur[t].id] = NoSave]
        /\ Step(t, Ended(cur[t], "WriteFailed"), "done")
  /\ UNCHANGED <<fields, pendingSaves, boundWith, crashed, validSessions, minted>>

\* getCookies(username) up to the await of storage.get
GetCookiesCall(t, id) ==
  /\ CanCall(t)
  /\ Begin(t, [NewCall("getCookies") EXCEPT !.id = id], "get")
  /\ UNCHANGED <<fields, environment>>

\* storage.get settles and getCookies parses what it read; hasCookies says
\* that it returns something else than null
StorageGet(t) ==
  /\ Running(t) /\ pc[t] = "get"
  /\ \/ \* readFile fails with something other than ENOENT: get rethrows
        Step(t, Ended([cur[t] EXCEPT !.read = "error"], "StoreError"), "done")
     \/ LET file == store[cur[t].id]
        IN Step(t, Ended([cur[t] EXCEPT !.read = ReadKind(file),
                                        !.hasCookies = CookiesFound(file),
                                        !.cookies = (IF CookiesFound(file)
                                                     THEN JSONparse(file.items)
                                                     ELSE <<>>)], "ok"), "done")
  /\ UNCHANGED <<fields, environment>>

StoreNext ==
  \E t \in SeqTasks :
    \/ \E id \in Identities, cookies \in CookieJar : SaveCookiesCall(t, id, cookies)
    \/ \E id \in Identities : GetCookiesCall(t, id)
    \/ StorageSet(t)
    \/ StorageGet(t)

StoreSpec == Init /\ [][StoreNext]_vars

\* --------------------------------------------------------- hasSessionExpired
\* The earlier ComEdBillDownloader, which keeps the cookies of the login in
\* _sessionCookies and tells from them whether the session has expired.
\* Date.now() counts milliseconds, cookie.expires seconds (-1 for a cookie
\* of the browser session, the ones with cookie.session true).
MsPerSecond == 1000
SessionExpires == 0 - 1
DateNows == {20 * MsPerSecond}
CookieExpiries == {10, 20, 30}
CookieDomains == {"secure.comed.com", "ads.example.com"}
BrowserCookies ==
  [name : {"c"}, domain : CookieDomains, session : {TRUE}, expires : {SessionExpires}]
    \cup [name : {"c"}, domain : CookieDomains, session : {FALSE}, expires : CookieExpiries]
\* what page.cookies() may return after a login
PageCookies == SeqsUpTo(BrowserCookies, MaxCookies)

\* this._sessionCookies.filter(cookie => cookie.session)
SessionScoped(cookies) == SelectSeq(cookies, LAMBDA c : c.session)

\* hasSessionExpired(): "TypeError" when [0] is undefined
hasSessionExpired(cookies, now) ==
  IF SessionScoped(cookies) = <<>> THEN "TypeError"
  ELSE IF now >= SessionScoped(cookies)[1].expires THEN "expired" ELSE "usable"

\* hasSessionExpired() called by the user of the class
HasSessionExpiredCall(t, now) ==
  /\ CanCall(t)
  /\ Begin(t, Ended([NewCall("hasSessionExpired") EXCEPT !.now = now],
                    hasSessionExpired(sessionCookies, now)), "done")
  /\ UNCHANGED <<fields, environment>>

\* authenticate() of that class: the login fails, or its cookies are kept
ExpiryAuthenticateCall(t) ==
  /\ CanCall(t)
  /\ \/ /\ Begin(t, Ended([NewCall("authenticate") EXCEPT !.logins = 1], "LoginFailed"), "done")
        /\ UNCHANGED fields
     \/ \E cookies \in PageCookies :
          /\ sessionCookies' = cookies
          /\ isAuthenticated' = TRUE
          /\ Begin(t, Ended([NewCall("authenticate") EXCEPT !.logins = 1], "ok"), "done")
          /\ UNCHANGED <<bearerToken, activeAccount>>
  /\ UNCHANGED environment

ExpiryNext ==
  \E t \in SeqTasks :
    \/ ExpiryAuthenticateCall(t)
    \/ \E now \in DateNows : HasSessionExpiredCall(t, now)

ExpirySpec == Init /\ [][ExpiryNext]_vars

\* ------------------------------------------------------------ specification
Call(t) ==
  \/ \E id \in Identities : AuthenticateCall(t, id)
  \/ GetBearerTokenCall(t)
  \/ \E a \in Accounts : ActivateAccountCall(t, a)
  \/ GetBillsCall(t)
  \/ \E bill \in Bills : DownloadBillCall(t, bill)
  \/ \E a \in Accounts, r \in Ranges : BulkDownloadCall(t, a, r[1], r[2])

Proceed(t) ==
  \/ AuthenticateGetCookies(t)
  \/ AuthenticateProbe(t)
  \/ AuthenticateLaunch(t)
  \/ AuthenticateLogin(t)
  \/ AuthenticateToken(t)
  \/ GetBearerTokenResponse(t)
  \/ ActivateResponse(t)
  \/ HistoryResponse(t)
  \/ DocumentResponse(t)
  \/ WriteSettles(t)

Next ==
  \/ \E t \in SeqTasks : Call(t)
  \/ \E t \in Tasks : Proceed(t)
  \/ SaveSettles
  \/ Revoke

Spec == Init /\ [][Next]_vars

\* ------------------------------------------- overlapping bulk downloads
\* The downloader used by a caller that awaits authenticate and then starts
\* bulk downloads without awaiting the one before: the calls interleave at
\* their awaits, which is where the event loop switches between them.
\* the date ranges of these callers: one the checks accept, one they reject
OverlapRanges ==
  {r \in Ranges : r \in {<<Now - HorizonMonths, Now - 6>>, <<Now - 25, Now>>}}

OverlapProceed(t) ==
  \/ AuthenticateGetCookies(t)
  \/ AuthenticateProbe(t)
  \/ AuthenticateLaunch(t)
  \/ AuthenticateLogin(t)
  \/ AuthenticateToken(t)
  \/ ActivateResponse(t)
  \/ HistoryResponse(t)
  \/ DocumentResponse(t)
  \/ WriteSettles(t)

OverlapNext ==
  \/ \E t \in SeqTasks, id \in Identities : AuthenticateCall(t, id)
  \/ \E t \in SeqTasks, a \in Accounts, r \in OverlapRanges :
       BulkDownloadCall(t, a, r[1], r[2])
  \/ \E t \in Tasks, a \in Accounts, r \in OverlapRanges :
       BulkDownloadOverlapping(t, a, r[1], r[2])
  \/ \E t \in Tasks : OverlapProceed(t)
  \/ SaveSettles
  \/ Revoke

\* a new downloader on a machine whose store holds no session yet
OverlapInit == Init /\ \A i \in Identities : store[i] = AbsentFile

OverlapSpec == OverlapInit /\ [][OverlapNext]_vars

\* ------------------------------------------------------------------ claims
Calls(op) == {t \in Tasks : cur[t].op = op}
Finished(call) == call.outcome \notin {"none", "running"}
Failed(call) == Finished(call) /\ call.outcome # "ok"
RequestsOf(call, kind) == SelectSeq(call.reqs, LAMBDA r : r.kind = kind)
Count(call, kind) == Len(RequestsOf(call, kind))
\* the provider still accepts the session these cookies name
Accepted(cookies) == SidOfHeader(SessionCookiesHttpString(cookies)) \in validSessions
\* every session-info request of the call was answered with a token
TokenEveryTime(call) ==
  \A k \in 1..Len(call.reqs) :
    call.reqs[k].kind = "sessioninfo" => call.reqs[k].resp \in {"pending", "ok"}

\* C1: authenticate on a new downloader whose store holds a cached session
\* the provider accepts adopts that session: it never starts the interactive
\* login and ends Authenticated with the token of the cached session.
C1_CachedSessionAdopted ==
  \A t \in Calls("authenticate") :
    (~cur[t].authAtStart /\ cur[t].hasCookies /\ Accepted(cur[t].cookies)) =>
      /\ cur[t].logins = 0
      /\ Finished(cur[t]) =>
           /\ cur[t].outcome = "ok"
           /\ isAuthenticated
           /\ sessionCookies = cur[t].cookies
           /\ bearerToken = TokenOf(SidOfHeader(SessionCookiesHttpString(cur[t].cookies)))

\* C2: of two authenticate calls in sequence for the same identity, both
\* finding a cached session the provider accepts, with every session-info
\* request answered with a token, the second starts no interactive login.
C2_SecondCallNoLogin ==
  \A t \in Calls("authenticate") :
    (/\ prev[t].op = "authenticate" /\ prev[t].id = cur[t].id
     /\ prev[t].hasCookies /\ cur[t].hasCookies /\ Accepted(cur[t].cookies)
     /\ TokenEveryTime(prev[t]) /\ TokenEveryTime(cur[t])) =>
      cur[t].logins = 0

\* C3: when the store holds no cached session for the identity (no file, or
\* content that does not parse), authenticate starts the interactive login
\* exactly once, and sends no session-info request before the login has
\* produced a session: every one it sends carries the cookies of a session
\* of this run's login.
C3_NoCacheLoginOnce ==
  \A t \in Calls("authenticate") :
    cur[t].read \in {"absent", "garbage"} =>
      /\ ~cur[t].hasCookies
      /\ cur[t].logins = (IF pc[t] = "login" THEN 0 ELSE 1)
      /\ pc[t] \in {"login", "browser"} => Count(cur[t], "sessioninfo") = 0
      /\ Count(cur[t], "sessioninfo") <= 1
      /\ \A k \in 1..Len(cur[t].reqs) :
           /\ cur[t].reqs[k].kind = "sessioninfo"
           /\ SidOfHeader(cur[t].reqs[k].cookie) >= FirstNewSid
           /\ cur[t].reqs[k].cookie = SessionCookiesHttpString(sessionCookies)

\* a call without a cached session has logged in and derived its token
C3_Witness ==
  \E t \in Calls("authenticate") :
    /\ cur[t].read \in {"absent", "garbage"}
    /\ cur[t].outcome = "ok"
    /\ cur[t].logins = 1
    /\ Count(cur[t], "sessioninfo") = 1

\* C4: every authenticated operation called while the downloader is not
\* authenticated fails with the AuthenticationError and sends no request,
\* and no request at all is sent while isAuthenticated is false.
C4_NoRequestWhileUnauthenticated ==
  \A t \in Tasks :
    /\ \A k \in 1..Len(cur[t].reqs) : cur[t].reqs[k].authed
    /\ (/\ cur[t].op \in {"getBearerToken", "activateAccount", "getBills",
                          "downloadBill", "bulkDownload"}
        /\ ~cur[t].authAtStart) =>
         cur[t].outcome = "AuthenticationError" /\ cur[t].reqs = <<>>

\* C5: authenticate raises an error to its caller only when the interactive
\* login fails.
C5_FailsOnlyIfLoginFails ==
  \A t \in Calls("authenticate") : Failed(cur[t]) => cur[t].outcome = "LoginFailed"

\* C5 as amended: authenticate raises an error only when the read of the
\* store fails with an error other than not-found (before any login or
\* request), when the interactive login fails, or when the session-info
\* request after a fresh login fails.  A missing or unparsable cache and a
\* failed session-info request on the cached path are never raised: the call
\* goes on to the interactive login.
C5_FailuresOfAuthenticate ==
  \A t \in Calls("authenticate") :
    /\ Failed(cur[t]) => cur[t].outcome \in {"StoreError", "LoginFailed", "TokenFailed"}
    /\ cur[t].outcome = "StoreError" =>
         cur[t].read = "error" /\ cur[t].logins = 0 /\ cur[t].reqs = <<>>
    /\ cur[t].outcome = "LoginFailed" => cur[t].logins = 1
    /\ cur[t].outcome = "TokenFailed" =>
         /\ cur[t].logins = 1
         /\ cur[t].reqs[Len(cur[t].reqs)].resp = "notok"
         /\ SidOfHeader(cur[t].reqs[Len(cur[t].reqs)].cookie) >= FirstNewSid
    /\ cur[t].read \in {"absent", "garbage"} => cur[t].outcome # "StoreError"
    /\ (cur[t].hasCookies /\ cur[t].authAtStart /\ Len(cur[t].reqs) >= 1
        /\ cur[t].reqs[1].resp = "notok") =>
         /\ pc[t] = "login" \/ cur[t].logins = 1
         /\ cur[t].outcome = "TokenFailed" => Len(cur[t].reqs) = 2

\* the session-info request of the cached path failed and the call went on
\* to the interactive login instead of raising
C5_Witness ==
  \E t \in Calls("authenticate") :
    /\ cur[t].hasCookies /\ cur[t].authAtStart
    /\ Len(cur[t].reqs) = 1 /\ cur[t].reqs[1].resp = "notok"
    /\ pc[t] = "browser"

\* C6: a failure to persist the session after a login is raised nowhere,
\* not even as a rejection nobody handles.
C6_PersistFailureSwallowed == ~crashed

\* the date range the claims call invalid, with the documented horizon
ClaimedInvalid(from, to, now) ==
  from > to \/ to > now \/ from < now - DocumentedHorizonMonths

\* C7: bulkDownload on an authenticated downloader with an invalid date range
\* (from > to, to after now, from before the retention horizon) raises the
\* date-range error and has sent no request, whatever the active account.
C7_RejectsBeforeAnyRequest ==
  \A t \in Calls("bulkDownload") :
    (cur[t].authAtStart /\ bearerToken # NoToken /\ ClaimedInvalid(cur[t].from, cur[t].to, Now)) =>
      cur[t].reqs = <<>> /\ cur[t].outcome = "DateRangeError"

\* C8: once bulkDownload on an authenticated downloader has checked the
\* dates, it raises the date-range error exactly when from > to, to > now or
\* from < now - 24 months; every other range goes on to the bill listing.
C8_HorizonIs24Months ==
  \A t \in Calls("bulkDownload") :
    (cur[t].authAtStart /\ bearerToken # NoToken /\ cur[t].now # NaN) =>
      /\ (cur[t].outcome = "DateRangeError")
            <=> ClaimedInvalid(cur[t].from, cur[t].to, cur[t].now)
      /\ ~ClaimedInvalid(cur[t].from, cur[t].to, cur[t].now) => Count(cur[t], "history") = 1

\* two bulkDownload calls in sequence on an authenticated downloader, the
\* first for an account that was not the active one
TwoBulkDownloads(t) ==
  /\ cur[t].op = "bulkDownload" /\ cur[t].authAtStart
  /\ prev[t].op = "bulkDownload" /\ prev[t].authAtStart
  /\ prev[t].activeAtStart # prev[t].acct

\* C9: on a downloader with no active account yet, bulkDownload for X and
\* then X again sends one activation request in total; for X and then Y # X
\* it sends two.
C9_OneActivationPerAccount ==
  \A t \in Tasks :
    (TwoBulkDownloads(t) /\ bearerToken # NoToken /\ prev[t].activeAtStart = Undefined) =>
      Count(prev[t], "activate") + Count(cur[t], "activate")
        = (IF prev[t].acct = cur[t].acct THEN 1 ELSE 2)

\* C9 as amended: bulkDownload sends an activation request exactly when the
\* account asked for is not the active account, and the active account
\* changes only when an activation succeeds.  So X (not active before) and
\* then X sends one activation request in total when the first activation
\* succeeds and two when it fails; X and then Y # X sends two, except that
\* it sends one when the first activation failed and Y was the active
\* account all along.
C9_ActivationWhenAccountDiffers ==
  \A t \in Tasks :
    /\ (cur[t].op = "bulkDownload" /\ cur[t].authAtStart) =>
         Count(cur[t], "activate") = (IF cur[t].activeAtStart # cur[t].acct THEN 1 ELSE 0)
    /\ TwoBulkDownloads(t) =>
         /\ Count(prev[t], "activate") = 1
         /\ cur[t].activeAtStart =
              (IF prev[t].reqs[1].resp = "ok" THEN prev[t].acct ELSE prev[t].activeAtStart)
         /\ Count(prev[t], "activate") + Count(cur[t], "activate")
              = (IF prev[t].reqs[1].resp = "ok"
                 THEN (IF cur[t].acct = prev[t].acct THEN 1 ELSE 2)
                 ELSE (IF cur[t].acct = prev[t].activeAtStart THEN 1 ELSE 2))

\* X was activated by the first call and the second call for X sent nothing
\* to the activation endpoint
C9_Witness ==
  \E t \in Tasks :
    /\ TwoBulkDownloads(t)
    /\ prev[t].acct = cur[t].acct
    /\ prev[t].reqs[1].resp = "ok"
    /\ Count(cur[t], "activate") = 0
    /\ Count(cur[t], "history") = 1

\* the records of the history the claim selects: date within [from, to]
Selected(history, from, to) ==
  SelectSeq(history, LAMBDA b : /\ DateValue(b.date) # NaN
                                /\ from <= DateValue(b.date)
                                /\ DateValue(b.date) <= to)

\* C10: bulkDownload fetches the history with one bill-history request and
\* downloads the records whose date lies in [from, to], bounds included, in
\* the order of the response: at any moment the documents requested are the
\* first of them, and all of them once the call has succeeded.
C10_DownloadsAreFilteredHistory ==
  \A t \in Calls("bulkDownload") :
    LET wanted == Selected(cur[t].history, cur[t].from, cur[t].to)
        docs == RequestsOf(cur[t], "document")
    IN /\ Count(cur[t], "history") <= 1
       /\ cur[t].fetched => Count(cur[t], "history") = 1
       /\ Len(docs) <= Len(wanted)
       /\ \A k \in 1..Len(docs) : docs[k].date = FormatDate(DateValue(wanted[k].date))
       /\ (cur[t].fetched /\ cur[t].outcome = "ok") =>
            /\ Len(docs) = Len(wanted)
            /\ Len(cur[t].written) = Len(wanted)

\* a history of two records, one of them outside the range, was filtered
\* and the other one downloaded
C10_Witness ==
  \E t \in Calls("bulkDownload") :
    /\ cur[t].fetched /\ cur[t].outcome = "ok"
    /\ Len(cur[t].history) = 2
    /\ DateValue(cur[t].history[1].date) # NaN
    /\ DateValue(cur[t].history[1].date) < cur[t].from
    /\ Len(cur[t].written) = 1

\* C11: getCookies returns, for an identity whose last save settled, a
\* cookie array equal to the one that save was given, whatever was saved
\* before and for other identities; with no file or with content that does
\* not parse it returns null and raises nothing.  It raises only when the
\* read itself fails with an error other than not-found.
C11_StoreRoundTrip ==
  \A t \in Calls("getCookies") :
    Finished(cur[t]) =>
      /\ cur[t].read # "error" => cur[t].outcome = "ok"
      /\ cur[t].outcome = "StoreError" => cur[t].read = "error"
      /\ (cur[t].read # "error" /\ saved[cur[t].id].known) =>
           cur[t].hasCookies /\ cur[t].cookies = saved[cur[t].id].cookies
      /\ cur[t].read \in {"absent", "garbage"} => ~cur[t].hasCookies
      /\ cur[t].hasCookies => cur[t].read = "json"

\* the third call reads back the two cookies the second call saved
C11_Witness ==
  \E t \in Calls("getCookies") :
    /\ ncalls = 3
    /\ prev[t].op = "saveCookies" /\ prev[t].id = cur[t].id /\ prev[t].outcome = "ok"
    /\ cur[t].outcome = "ok" /\ cur[t].hasCookies
    /\ Len(cur[t].cookies) = 2

\* C12: a getBearerToken call (on a downloader that authenticate left with a
\* token) whose session-info response was not successful,
\* or was successful without a token in it, ends with an error: it never
\* returns an undefined token.
C12_TokenOrError ==
  \A t \in Calls("getBearerToken") :
    (/\ Finished(cur[t]) /\ cur[t].reqs # <<>>
     /\ bearerToken # NoToken
     /\ cur[t].reqs[Len(cur[t].reqs)].resp \in {"notok", "notoken"}) =>
      Failed(cur[t])

\* C13: after every authenticate that succeeded with a token, the token is
\* the answer to a session-info request that carried the cookies of the
\* session now held; and the probe of the cached path carries the cookies of
\* the cached session, not those the downloader held before.
C13_TokenOfAdoptedSession ==
  \A t \in Calls("authenticate") :
    /\ (cur[t].outcome = "ok" /\ bearerToken # NoToken) =>
         /\ cur[t].reqs # <<>>
         /\ cur[t].reqs[Len(cur[t].reqs)].cookie = SessionCookiesHttpString(sessionCookies)
         /\ bearerToken = TokenOf(SidOfHeader(SessionCookiesHttpString(sessionCookies)))
    /\ (/\ cur[t].hasCookies /\ cur[t].authAtStart /\ cur[t].reqs # <<>>
        /\ prev[t].op = "authenticate" /\ prev[t].outcome = "ok" /\ TokenEveryTime(prev[t])) =>
         cur[t].reqs[1].cookie = SessionCookiesHttpString(cur[t].cookies)

\* the cookies the claim's validator looks at: those of the provider's domain
\* that are not session-scoped
Persistent(cookies) ==
  SelectSeq(cookies, LAMBDA c : ~c.session /\ c.domain = "secure.comed.com")
InTheFuture(cookie, now) == cookie.expires * MsPerSecond > now

\* C14: hasSessionExpired on the cookies of a login reports the session
\* usable when every persistent cookie of the provider's domain expires
\* strictly in the future, and expired when one of them does not;
\* session-scoped cookies do not count.
C14_ExpiryOfPersistentCookies ==
  \A t \in Calls("hasSessionExpired") :
    LET relevant == Persistent(sessionCookies)
    IN (cur[t].authAtStart /\ sessionCookies # <<>>) =>
       cur[t].outcome =
         (IF \A k \in 1..Len(relevant) : InTheFuture(relevant[k], cur[t].now)
          THEN "usable" ELSE "expired")

\* C15: within a bulkDownload call the documents are requested in the order
\* of the bills in range, and the request for the next one is sent only
\* once the one before was answered and its file written: every request but
\* the last was answered successfully, and at most one file is missing.
C15_OneDownloadAtATime ==
  \A t \in Calls("bulkDownload") :
    LET docs == RequestsOf(cur[t], "document")
    IN /\ \A k \in 1..(Len(docs) - 1) : docs[k].resp = "ok"
       /\ Len(cur[t].written) <= Len(docs)
       /\ Len(docs) <= Len(cur[t].written) + 1
       /\ Len(docs) <= Len(cur[t].matched)
       /\ \A k \in 1..Len(cur[t].written) : cur[t].written[k] = FileName(docs[k])
       /\ \A k \in 1..Len(docs) :
            docs[k].date = FormatDate(DateValue(cur[t].matched[k].date))
       /\ Len(docs) = Len(cur[t].written) + 1 <=>
            (pc[t] \in {"document", "write"}
               \/ cur[t].outcome \in {"DownloadFailed", "WriteFailed"})

\* the second download is in flight and the file of the first is written
C15_Witness ==
  \E t \in Calls("bulkDownload") :
    /\ pc[t] = "document"
    /\ Count(cur[t], "document") = 2
    /\ Len(cur[t].written) = 1
    /\ cur[t].reqs[Len(cur[t].reqs)].resp = "pending"

\* C16: when the download of the k-th bill in range fails, bulkDownload ends
\* with that error; the files of the k - 1 bills before it stay written and
\* none is added for the k-th; no document was requested for a later bill;
\* and no request that failed was sent again.
C16_FailedDownloadEndsTheCall ==
  \A t \in Calls("bulkDownload") :
    LET docs == RequestsOf(cur[t], "document")
        k == Len(docs)
    IN /\ \A j \in 1..Len(cur[t].reqs) :
            cur[t].reqs[j].resp = "notok" => j = Len(cur[t].reqs) /\ Failed(cur[t])
       /\ cur[t].outcome \in {"DownloadFailed", "WriteFailed"} =>
            /\ pc[t] = "done"
            /\ k >= 1 /\ k <= Len(cur[t].matched)
            /\ docs[k] = cur[t].reqs[Len(cur[t].reqs)]
            /\ docs[k].date = FormatDate(DateValue(cur[t].matched[k].date))
            /\ Len(cur[t].written) = k - 1
            /\ \A j \in 1..(k - 1) :
                 docs[j].resp = "ok" /\ cur[t].written[j] = FileName(docs[j])
            /\ docs[k].resp = (IF cur[t].outcome = "DownloadFailed" THEN "notok" ELSE "ok")

\* the second download failed and the file of the first is still there
C16_Witness ==
  \E t \in Calls("bulkDownload") :
    /\ cur[t].outcome = "DownloadFailed"
    /\ Count(cur[t], "document") = 2
    /\ Len(cur[t].written) = 1

\* C17: when the activation request of a bulkDownload call fails, the call
\* ends with an error, has sent nothing but that request, and the active
\* account is the one it was before the call; in every call the active
\* account is the account asked for once an activation request for it was
\* answered successfully, and the one it was at the start until then.
C17_ActivationFailureKeepsAccount ==
  \A t \in Tasks :
    /\ cur[t].op # "none" =>
         activeAccount =
           (IF \E k \in 1..Len(cur[t].reqs) :
                 cur[t].reqs[k].kind = "activate" /\ cur[t].reqs[k].resp = "ok"
            THEN cur[t].acct ELSE cur[t].activeAtStart)
    /\ (/\ cur[t].op = "bulkDownload" /\ cur[t].reqs # <<>>
        /\ cur[t].reqs[1].kind = "activate" /\ cur[t].reqs[1].resp = "notok") =>
         /\ pc[t] = "done" /\ cur[t].outcome = "ActivationFailed"
         /\ Len(cur[t].reqs) = 1
         /\ activeAccount = cur[t].activeAtStart
    /\ cur[t].outcome = "ActivationFailed" =>
         cur[t].reqs[Len(cur[t].reqs)].resp = "notok"

\* the activation of A failed while B was the active account, and B still is
C17_Witness ==
  \E t \in Calls("bulkDownload") :
    /\ cur[t].outcome = "ActivationFailed"
    /\ cur[t].activeAtStart \in Accounts
    /\ cur[t].activeAtStart # cur[t].acct
    /\ activeAccount = cur[t].activeAtStart

\* C18: the downloader starts unauthenticated; isAuthenticated, once true,
\* stays true in every later step, whatever call succeeds or fails; and it
\* becomes true only in a step of an authenticate call.
C18_AuthStateMonotone ==
  /\ isAuthenticated = FALSE
  /\ [][/\ isAuthenticated => isAuthenticated'
        /\ (~isAuthenticated /\ isAuthenticated') =>
             \E t \in Tasks : /\ cur[t].op = "authenticate"
                              /\ pc[t] \in {"probe", "browser"}
                              /\ pc'[t] # pc[t]]_vars

\* a re-authentication failed at the login and the downloader is still
\* authenticated
C18_Witness ==
  \E t \in Calls("authenticate") :
    /\ cur[t].authAtStart
    /\ cur[t].outcome = "LoginFailed"
    /\ isAuthenticated

\* C19: a downloader that is authenticated holds a bearer token: in
\* particular, once an authenticate call that started unauthenticated and
\* without a cached session has ended, with an error or not (every
\* successful session-info response carrying a token), isAuthenticated
\* implies that bearerToken is defined.
C19_AuthenticatedHasToken ==
  \A t \in Calls("authenticate") :
    (/\ Finished(cur[t]) /\ ~cur[t].authAtStart /\ ~cur[t].hasCookies
     /\ \A k \in 1..Len(cur[t].reqs) : cur[t].reqs[k].resp # "notoken"
     /\ isAuthenticated) =>
      bearerToken # NoToken

\* C20: the active account was activated with the session the downloader
\* holds: on an authenticated downloader whose active account was set by an
\* activation request that carried session cookies, those cookies are the
\* ones held now; and the bill-history request of a bulkDownload call is
\* sent with the cookies the account was activated with.
C20_AccountBoundToSession ==
  /\ (/\ isAuthenticated /\ bearerToken # NoToken
      /\ activeAccount # Undefined /\ boundWith # <<>>) =>
       boundWith = SessionCookiesHttpString(sessionCookies)
  /\ \A t \in Calls("bulkDownload") :
       \A k \in 1..Len(cur[t].reqs) :
         (cur[t].reqs[k].kind = "history" /\ bearerToken # NoToken /\ boundWith # <<>>) =>
           /\ activeAccount = cur[t].acct
           /\ boundWith = cur[t].reqs[k].cookie

\* C21: every bill-history and bill-document request a bulkDownload(A, ...)
\* sends with the session's bearer token names account A in its URL, and so
\* does the name of the file the document is saved to, also while another
\* bulkDownload(B, ...) on the same downloader is suspended at an await
\* (all the date ranges being ones the checks accept).
C21_RequestsTargetOwnAccount ==
  \A t \in Tasks :
    (cur[t].op = "bulkDownload" /\ \A u \in Tasks : cur[u].outcome # "DateRangeError") =>
      \A k \in 1..Len(cur[t].reqs) :
        LET r == cur[t].reqs[k]
        IN (r.kind \in {"history", "document"} /\ r.authed /\ r.bearer # NoToken) =>
             /\ r.account = cur[t].acct
             /\ FileName(r)[1] = cur[t].acct

====
